---------------------------- MODULE Spec2Model ----------------------------
(***************************************************************************)
(* FinTrack (src/app.py): a Flask application over three tables, User,     *)
(* Expense and Income.  One browser session talks to the application; the  *)
(* state is the three tables, the session's identity, and the last request *)
(* with the response the handler gave it.                                  *)
(*                                                                         *)
(* Text that the code only compares or stores (username, email, password,  *)
(* description, category) is a TLA+ string; text that the code parses      *)
(* (amount, date) is a tuple of one-character strings, parsed here the way *)
(* float() and datetime.strptime(..., '%Y-%m-%d') parse it.  Amount        *)
(* strings are signed decimal integers; db.Float is a binary floating      *)
(* point number, modelled with a mantissa of MantissaBits bits (53 in the  *)
(* program) and round-to-nearest-even addition.  Form posts carry all of   *)
(* their fields (possibly empty).  New rows take the id max(id)+1, as      *)
(* SQLite's INTEGER PRIMARY KEY does.                                      *)
(***************************************************************************)
EXTENDS Integers, Sequences, FiniteSets, TLC

\* ------------------------------------------------------------ bounds ----
\* Mantissa width of the modelled db.Float / Python float (53 in the program).
MantissaBits == 3
\* At most this many rows in Expense and Income together.
MaxRecords == 2
\* At most this many rows in Expense and Income together in SpecLedger.
MaxLedger == 3
\* At most this many rows in Expense and Income together in SpecAuth.
MaxAuthRecords == 1

\* ------------------------------------------------- numbers and text ----
Digit == {"0", "1", "2", "3", "4", "5", "6", "7", "8", "9"}

DigitValue(c) ==
    CASE c = "0" -> 0 [] c = "1" -> 1 [] c = "2" -> 2 [] c = "3" -> 3
      [] c = "4" -> 4 [] c = "5" -> 5 [] c = "6" -> 6 [] c = "7" -> 7
      [] c = "8" -> 8 [] c = "9" -> 9

AllDigits(s) == Len(s) > 0 /\ \A i \in 1..Len(s) : s[i] \in Digit

RECURSIVE DecimalValue(_)
DecimalValue(s) ==
    IF Len(s) = 0 THEN 0
    ELSE 10 * DecimalValue(SubSeq(s, 1, Len(s) - 1)) + DigitValue(s[Len(s)])

RECURSIVE Pow2(_)
Pow2(n) == IF n = 0 THEN 1 ELSE 2 * Pow2(n - 1)

Abs(n) == IF n < 0 THEN 0 - n ELSE n

\* The spacing of the representable floats around magnitude a.
RECURSIVE Quantum(_, _)
Quantum(a, q) == IF a < Pow2(MantissaBits) * q THEN q ELSE Quantum(a, 2 * q)

\* The float nearest to the exact value n, ties to the even mantissa.
RoundNearestEven(n) ==
    LET a  == Abs(n)
        q  == Quantum(a, 1)
        lo == (a \div q) * q
        r  == a - lo
        up == IF 2 * r > q \/ (2 * r = q /\ (lo \div q) % 2 = 1)
              THEN lo + q ELSE lo
    IN  IF n < 0 THEN 0 - up ELSE up

\* Float addition and subtraction: the exact result, rounded.
FAdd(a, b) == RoundNearestEven(a + b)
FSub(a, b) == RoundNearestEven(a - b)

\* float(s) raises ValueError unless s is an optionally signed numeral.
Unsigned(s) == IF Len(s) > 0 /\ s[1] \in {"-", "+"} THEN Tail(s) ELSE s

float_raises(s) == ~AllDigits(Unsigned(s))

float(s) ==
    LET v == DecimalValue(Unsigned(s))
    IN  RoundNearestEven(IF s[1] = "-" THEN 0 - v ELSE v)

\* ------------------------------------------------------------ dates ----
IsLeap(y) == (y % 4 = 0 /\ y % 100 # 0) \/ y % 400 = 0

DaysInMonth(y, m) ==
    IF m = 2 THEN (IF IsLeap(y) THEN 29 ELSE 28)
    ELSE IF m \in {4, 6, 9, 11} THEN 30 ELSE 31

\* The three fields of a '%Y-%m-%d' string: four year digits, then one or
\* two month digits and one or two day digits, split at the dashes.
DateFields(s) ==
    LET k == IF Len(s) >= 7 /\ s[7] = "-" THEN 7 ELSE 8
    IN  [y |-> SubSeq(s, 1, 4), m |-> SubSeq(s, 6, k - 1),
         d |-> SubSeq(s, k + 1, Len(s))]

\* strptime that takes any day 1..31 in any month.
strptime_any_day(s) ==
    \/ Len(s) < 8
    \/ s[5] # "-"
    \/ ~(s[7] = "-" \/ s[8] = "-")
    \/ LET f == DateFields(s)
       IN  \/ ~AllDigits(f.y) \/ ~AllDigits(f.m) \/ ~AllDigits(f.d)
           \/ Len(f.m) > 2 \/ Len(f.d) > 2
           \/ DecimalValue(f.y) < 1
           \/ DecimalValue(f.m) \notin 1..12
           \/ DecimalValue(f.d) \notin 1..31

strptime_raises(s) ==
    \/ Len(s) < 8
    \/ s[5] # "-"
    \/ ~(s[7] = "-" \/ s[8] = "-")
    \/ LET f == DateFields(s)
       IN  \/ ~AllDigits(f.y) \/ ~AllDigits(f.m) \/ ~AllDigits(f.d)
           \/ Len(f.m) > 2 \/ Len(f.d) > 2
           \/ DecimalValue(f.y) < 1
           \/ DecimalValue(f.m) \notin 1..12
           \/ DecimalValue(f.d) \notin
                  1..DaysInMonth(DecimalValue(f.y), DecimalValue(f.m))

strptime(s) ==
    LET f == DateFields(s)
    IN  [year |-> DecimalValue(f.y), month |-> DecimalValue(f.m),
         day |-> DecimalValue(f.d)]


\* ------------------------------------------------------------ state ----
VARIABLES
    User,          \* the User table: row id |-> [username, email, password_hash]
    Expense,       \* the Expense table: row id |-> [user_id, description, amount, category, date]
    Income,        \* the Income table, same shape
    current_user,  \* the session's identity: a User id, or Anonymous
    request,       \* the last request handled
    response       \* the response it got

vars == <<User, Expense, Income, current_user, request, response>>

\* flask_login's AnonymousUserMixin: no id.
Anonymous == 0

is_authenticated == current_user # Anonymous

\* werkzeug's one-way digest and its verification.
generate_password_hash(password) == <<"pbkdf2:sha256", password>>

\* A verification that takes any password.
check_any_password(pwhash, password) == TRUE

check_password_hash(pwhash, password) ==
    pwhash = generate_password_hash(password)

\* ------------------------------------------------------- responses ----
NoContext == [view |-> "none"]

redirect(endpoint, message, category) ==
    [status |-> 302, location |-> endpoint, flash |-> message,
     category |-> category, context |-> NoContext]

render_template(template, message, category, context) ==
    [status |-> 200, location |-> template, flash |-> message,
     category |-> category, context |-> context]

\* A missing row answered like another user's row.
abort_as_forbidden ==
    [status |-> 302, location |-> "expenses",
     flash |-> "Voce nao tem permissao para deletar este gasto.",
     category |-> "danger", context |-> [view |-> "none"]]

\* get_or_404 on a missing row.
abort_404 ==
    [status |-> 404, location |-> "", flash |-> "", category |-> "",
     context |-> NoContext]

login_message == "Por favor, faca login para acessar esta pagina."

\* @login_required on an anonymous session: to the login view, with the
\* requested endpoint kept as ?next=.
unauthorized(endpoint) ==
    [status |-> 302, location |-> "login", flash |-> login_message,
     category |-> "message", context |-> [next |-> endpoint]]

\* --------------------------------------------------------- queries ----
\* The next INTEGER PRIMARY KEY of a table.
RECURSIVE MaxOf(_)
MaxOf(S) ==
    IF S = {} THEN 0
    ELSE LET x == CHOOSE y \in S : TRUE
             m == MaxOf(S \ {x})
         IN  IF x > m THEN x ELSE m

next_id(table) == MaxOf(DOMAIN table) + 1

\* table plus one row / minus one row.
insert(table, row) ==
    [i \in DOMAIN table \cup {next_id(table)} |->
        IF i \in DOMAIN table THEN table[i] ELSE row]

delete(table, id) == [i \in DOMAIN table \ {id} |-> table[i]]

\* An email lookup that finds nothing.
email_never_taken(email) == FALSE

\* User.query.filter_by(email=...).first() and (username=...).first() find a row.
email_taken(email) == \E u \in DOMAIN User : User[u].email = email

username_taken(username) == \E u \in DOMAIN User : User[u].username = username

\* A query without the user_id filter.
filter_by_nobody(table, user_id) == DOMAIN table

\* filter_by(user_id=...): the ids of the rows of one owner.
filter_by_user(table, user_id) ==
    {i \in DOMAIN table : table[i].user_id = user_id}

\* the further filters extract('year', date) == year and extract('month', date) == month.
filter_year(table, ids, year) == {i \in ids : table[i].date.year = year}

filter_month(table, ids, month) == {i \in ids : table[i].date.month = month}

\* The ids in scan (rowid) order.
RECURSIVE Ascending(_)
Ascending(S) ==
    IF S = {} THEN <<>>
    ELSE LET x == CHOOSE y \in S : \A z \in S : y <= z
         IN  <<x>> \o Ascending(S \ {x})

DateKey(d) == d.year * 10000 + d.month * 100 + d.day

\* order_by(date.desc()): latest first, rows of one date in rowid order.
RECURSIVE order_by_date_desc(_, _)
order_by_date_desc(table, S) ==
    IF S = {} THEN <<>>
    ELSE LET x == CHOOSE y \in S : \A z \in S :
                     \/ DateKey(table[y].date) > DateKey(table[z].date)
                     \/ /\ DateKey(table[y].date) = DateKey(table[z].date)
                        /\ y <= z
         IN  <<x>> \o order_by_date_desc(table, S \ {x})

\* Python's sum(): a left fold from 0.
RECURSIVE SumUpTo(_, _)
SumUpTo(amounts, n) ==
    IF n = 0 THEN 0 ELSE FAdd(SumUpTo(amounts, n - 1), amounts[n])

sum(amounts) == SumUpTo(amounts, Len(amounts))

\* func.sum(amount) over the rows ids, "or 0" when there is none: the
\* database adds the amounts in scan order.
func_sum(table, ids) ==
    LET order == Ascending(ids)
    IN  sum([k \in 1..Len(order) |-> table[order[k]].amount])

\* group_by(category) with func.sum(amount): category |-> sum, for the
\* categories that have a row.
group_by_category(table, ids) ==
    [c \in {table[i].category : i \in ids} |->
        func_sum(table, {i \in ids : table[i].category = c})]

\* An ownership check that lets everyone through.
not_owner_never(row) == FALSE

\* The ownership check before a delete or an edit: the row is another user's.
not_owner(row) == row.user_id # current_user

\* ----------------------------------------------------------- views ----
\* What expenses() and incomes() hand to the template for one user: the
\* user's rows, latest first, their total, and the total per category.
listing(table, user_id) ==
    LET order == order_by_date_desc(table, filter_by_user(table, user_id))
        rows  == [k \in 1..Len(order) |-> [id |-> order[k]] @@ table[order[k]]]
        of(c) == LET at == {k \in 1..Len(rows) : rows[k].category = c}
                     ks == Ascending(at)
                 IN  sum([j \in 1..Len(ks) |-> rows[ks[j]].amount])
    IN  [rows       |-> rows,
         total      |-> sum([k \in 1..Len(rows) |-> rows[k].amount]),
         categories |-> [c \in {rows[k].category : k \in 1..Len(rows)} |-> of(c)]]

month_abbr == <<"Jan", "Fev", "Mar", "Abr", "Mai", "Jun",
                "Jul", "Ago", "Set", "Out", "Nov", "Dez">>

\* The rows of one user dated in one year.
year_rows(table, user_id, year) ==
    filter_year(table, filter_by_user(table, user_id), year)

\* monthly_data: one entry per month 1..12 of the selected year, from the
\* Expense table E and the Income table I.
monthly_data(E, I, user_id, selected_year) ==
    [month \in 1..12 |->
        LET expenses_sum == func_sum(E, filter_month(E,
                                year_rows(E, user_id, selected_year), month))
            incomes_sum  == func_sum(I, filter_month(I,
                                year_rows(I, user_id, selected_year), month))
        IN  [month      |-> month,
             month_name |-> month_abbr[month],
             expenses   |-> expenses_sum,
             incomes    |-> incomes_sum,
             balance    |-> FSub(incomes_sum, expenses_sum)]]

\* yearly_data: one entry per year selected_year-4 .. selected_year.
yearly_data(E, I, user_id, selected_year) ==
    [k \in 1..5 |->
        LET year         == selected_year - 5 + k
            expenses_sum == func_sum(E, year_rows(E, user_id, year))
            incomes_sum  == func_sum(I, year_rows(I, user_id, year))
        IN  [year     |-> year,
             expenses |-> expenses_sum,
             incomes  |-> incomes_sum,
             balance  |-> FSub(incomes_sum, expenses_sum)]]

\* Everything financial_dashboard() hands to the template.
dashboard_context(E, I, user_id, selected_year) ==
    LET monthly        == monthly_data(E, I, user_id, selected_year)
        total_expenses == sum([m \in 1..12 |-> monthly[m].expenses])
        total_incomes  == sum([m \in 1..12 |-> monthly[m].incomes])
    IN  [monthly_data       |-> monthly,
         yearly_data        |-> yearly_data(E, I, user_id, selected_year),
         expense_categories |-> group_by_category(E,
                                    year_rows(E, user_id, selected_year)),
         income_categories  |-> group_by_category(I,
                                    year_rows(I, user_id, selected_year)),
         total_expenses     |-> total_expenses,
         total_incomes      |-> total_incomes,
         total_balance      |-> FSub(total_incomes, total_expenses),
         selected_year      |-> selected_year]

\* ------------------------------------------------------------- init ----
NoRows == [i \in {} |-> 0]

Init ==
    /\ User = NoRows
    /\ Expense = NoRows
    /\ Income = NoRows
    /\ current_user = Anonymous
    /\ request = [route |-> "none", method |-> "", args |-> NoContext]
    /\ response = abort_404

\* ------------------------------------------------- session handlers ----
index ==
    /\ request' = [route |-> "index", method |-> "GET", args |-> NoContext]
    /\ response' = IF is_authenticated THEN redirect("dashboard", "", "")
                   ELSE redirect("login", "", "")
    /\ UNCHANGED <<User, Expense, Income, current_user>>

login(method, email, password, next_page) ==
    LET found == {u \in DOMAIN User : User[u].email = email}
        user  == CHOOSE u \in found : \A v \in found : u <= v
        ok    == found # {} /\ check_password_hash(User[user].password_hash, password)
    IN  /\ request' = [route |-> "login", method |-> method,
                       args |-> [email |-> email, password |-> password,
                                 next |-> next_page]]
        /\ IF is_authenticated
           THEN /\ response' = redirect("dashboard", "", "")
                /\ UNCHANGED current_user
           ELSE IF method = "POST" /\ ok
           THEN /\ current_user' = user
                /\ response' = redirect(IF next_page # "" THEN next_page ELSE "dashboard",
                                        "Login realizado com sucesso!", "success")
           ELSE /\ response' = IF method = "POST"
                               THEN render_template("login.html",
                                        "Email ou senha incorretos.", "danger", NoContext)
                               ELSE render_template("login.html", "", "", NoContext)
                /\ UNCHANGED current_user
        /\ UNCHANGED <<User, Expense, Income>>

register(method, username, email, password, confirm_password) ==
    LET new_user == [username |-> username, email |-> email,
                     password_hash |-> generate_password_hash(password)]
        refusal  == IF password # confirm_password THEN "As senhas nao coincidem."
                    ELSE IF email_taken(email) THEN "Este email ja esta cadastrado."
                    ELSE IF username_taken(username) THEN "Este nome de usuario ja existe."
                    ELSE ""
    IN  /\ request' = [route |-> "register", method |-> method,
                       args |-> [username |-> username, email |-> email,
                                 password |-> password,
                                 confirm_password |-> confirm_password]]
        /\ IF is_authenticated
           THEN /\ response' = redirect("dashboard", "", "")
                /\ UNCHANGED User
           ELSE IF method # "POST"
           THEN /\ response' = render_template("register.html", "", "", NoContext)
                /\ UNCHANGED User
           ELSE IF refusal # ""
           THEN /\ response' = render_template("register.html", refusal, "danger", NoContext)
                /\ UNCHANGED User
           ELSE /\ User' = insert(User, new_user)
                /\ response' = redirect("login",
                                        "Conta criada com sucesso! Faca login.", "success")
        /\ UNCHANGED <<Expense, Income, current_user>>

dashboard ==
    /\ request' = [route |-> "dashboard", method |-> "GET", args |-> NoContext]
    /\ response' = IF ~is_authenticated THEN unauthorized("dashboard")
                   ELSE render_template("dashboard.html", "", "",
                                        [username |-> User[current_user].username])
    /\ UNCHANGED <<User, Expense, Income, current_user>>

logout ==
    /\ request' = [route |-> "logout", method |-> "GET", args |-> NoContext]
    /\ IF ~is_authenticated
       THEN /\ response' = unauthorized("logout")
            /\ UNCHANGED current_user
       ELSE /\ current_user' = Anonymous
            /\ response' = redirect("login", "Voce saiu da sua conta.", "info")
    /\ UNCHANGED <<User, Expense, Income>>

\* ---------------------------------------------------- expense handlers ----
expenses ==
    /\ request' = [route |-> "expenses", method |-> "GET", args |-> NoContext]
    /\ response' = IF ~is_authenticated THEN unauthorized("expenses")
                   ELSE render_template("expenses.html", "", "",
                                        listing(Expense, current_user))
    /\ UNCHANGED <<User, Expense, Income, current_user>>

add_expense(description, amount, category, date_str) ==
    LET new_expense == [user_id |-> current_user, description |-> description,
                    amount |-> float(amount), category |-> category,
                    date |-> strptime(date_str)]
    IN  /\ request' = [route |-> "add_expense", method |-> "POST",
                       args |-> [description |-> description, amount |-> amount,
                                 category |-> category, date |-> date_str]]
        /\ IF ~is_authenticated
           THEN /\ response' = unauthorized("add_expense")
                /\ UNCHANGED Expense
           ELSE IF description = "" \/ amount = <<>> \/ category = "" \/ date_str = <<>>
           THEN /\ response' = redirect("expenses",
                                   "Todos os campos sao obrigatorios.", "danger")
                /\ UNCHANGED Expense
           ELSE IF float_raises(amount)
           THEN /\ response' = redirect("expenses", "Valor ou data invalidos.", "danger")
                /\ UNCHANGED Expense
           ELSE IF float(amount) <= 0
           THEN /\ response' = redirect("expenses",
                                   "O valor deve ser maior que zero.", "danger")
                /\ UNCHANGED Expense
           ELSE IF strptime_raises(date_str)
           THEN /\ response' = redirect("expenses", "Valor ou data invalidos.", "danger")
                /\ UNCHANGED Expense
           ELSE /\ Expense' = insert(Expense, new_expense)
                /\ response' = redirect("expenses", "Gasto adicionado com sucesso!", "success")
        /\ UNCHANGED <<User, Income, current_user>>

delete_expense(id) ==
    /\ request' = [route |-> "delete_expense", method |-> "GET", args |-> [id |-> id]]
    /\ IF ~is_authenticated
       THEN /\ response' = unauthorized("delete_expense")
            /\ UNCHANGED Expense
       ELSE IF id \notin DOMAIN Expense
       THEN /\ response' = abort_404
            /\ UNCHANGED Expense
       ELSE IF not_owner(Expense[id])
       THEN /\ response' = redirect("expenses", "Voce nao tem permissao para deletar este gasto.", "danger")
            /\ UNCHANGED Expense
       ELSE /\ Expense' = delete(Expense, id)
            /\ response' = redirect("expenses", "Gasto deletado com sucesso!", "success")
    /\ UNCHANGED <<User, Income, current_user>>

\* The assignments of the try block reach the table only with the commit:
\* when float() or strptime() raises, the request's session is discarded.
edit_expense(id, description, amount, category, date_str) ==
    LET edited == [user_id |-> Expense[id].user_id, description |-> description,
                   amount |-> float(amount), category |-> category,
                   date |-> strptime(date_str)]
    IN  /\ request' = [route |-> "edit_expense", method |-> "POST",
                       args |-> [id |-> id, description |-> description,
                                 amount |-> amount, category |-> category,
                                 date |-> date_str]]
        /\ IF ~is_authenticated
           THEN /\ response' = unauthorized("edit_expense")
                /\ UNCHANGED Expense
           ELSE IF id \notin DOMAIN Expense
           THEN /\ response' = abort_404
                /\ UNCHANGED Expense
           ELSE IF not_owner(Expense[id])
           THEN /\ response' = redirect("expenses", "Voce nao tem permissao para editar este gasto.", "danger")
                /\ UNCHANGED Expense
           ELSE IF float_raises(amount) \/ strptime_raises(date_str)
           THEN /\ response' = redirect("expenses", "Valor ou data invalidos.", "danger")
                /\ UNCHANGED Expense
           ELSE /\ Expense' = [Expense EXCEPT ![id] = edited]
                /\ response' = redirect("expenses", "Gasto atualizado com sucesso!", "success")
        /\ UNCHANGED <<User, Income, current_user>>

\* ---------------------------------------------------- -income handlers ----
incomes ==
    /\ request' = [route |-> "incomes", method |-> "GET", args |-> NoContext]
    /\ response' = IF ~is_authenticated THEN unauthorized("incomes")
                   ELSE render_template("incomes.html", "", "",
                                        listing(Income, current_user))
    /\ UNCHANGED <<User, Expense, Income, current_user>>

add_income(description, amount, category, date_str) ==
    LET new_income == [user_id |-> current_user, description |-> description,
                    amount |-> float(amount), category |-> category,
                    date |-> strptime(date_str)]
    IN  /\ request' = [route |-> "add_income", method |-> "POST",
                       args |-> [description |-> description, amount |-> amount,
                                 category |-> category, date |-> date_str]]
        /\ IF ~is_authenticated
           THEN /\ response' = unauthorized("add_income")
                /\ UNCHANGED Income
           ELSE IF description = "" \/ amount = <<>> \/ category = "" \/ date_str = <<>>
           THEN /\ response' = redirect("incomes",
                                   "Todos os campos sao obrigatorios.", "danger")
                /\ UNCHANGED Income
           ELSE IF float_raises(amount)
           THEN /\ response' = redirect("incomes", "Valor ou data invalidos.", "danger")
                /\ UNCHANGED Income
           ELSE IF float(amount) <= 0
           THEN /\ response' = redirect("incomes",
                                   "O valor deve ser maior que zero.", "danger")
                /\ UNCHANGED Income
           ELSE IF strptime_raises(date_str)
           THEN /\ response' = redirect("incomes", "Valor ou data invalidos.", "danger")
                /\ UNCHANGED Income
           ELSE /\ Income' = insert(Income, new_income)
                /\ response' = redirect("incomes", "Receita adicionada com sucesso!", "success")
        /\ UNCHANGED <<User, Expense, current_user>>

delete_income(id) ==
    /\ request' = [route |-> "delete_income", method |-> "GET", args |-> [id |-> id]]
    /\ IF ~is_authenticated
       THEN /\ response' = unauthorized("delete_income")
            /\ UNCHANGED Income
       ELSE IF id \notin DOMAIN Income
       THEN /\ response' = abort_404
            /\ UNCHANGED Income
       ELSE IF not_owner(Income[id])
       THEN /\ response' = redirect("incomes", "Voce nao tem permissao para deletar esta receita.", "danger")
            /\ UNCHANGED Income
       ELSE /\ Income' = delete(Income, id)
            /\ response' = redirect("incomes", "Receita deletada com sucesso!", "success")
    /\ UNCHANGED <<User, Expense, current_user>>

\* The assignments of the try block reach the table only with the commit:
\* when float() or strptime() raises, the request's session is discarded.
edit_income(id, description, amount, category, date_str) ==
    LET edited == [user_id |-> Income[id].user_id, description |-> description,
                   amount |-> float(amount), category |-> category,
                   date |-> strptime(date_str)]
    IN  /\ request' = [route |-> "edit_income", method |-> "POST",
                       args |-> [id |-> id, description |-> description,
                                 amount |-> amount, category |-> category,
                                 date |-> date_str]]
        /\ IF ~is_authenticated
           THEN /\ response' = unauthorized("edit_income")
                /\ UNCHANGED Income
           ELSE IF id \notin DOMAIN Income
           THEN /\ response' = abort_404
                /\ UNCHANGED Income
           ELSE IF not_owner(Income[id])
           THEN /\ response' = redirect("incomes", "Voce nao tem permissao para editar esta receita.", "danger")
                /\ UNCHANGED Income
           ELSE IF float_raises(amount) \/ strptime_raises(date_str)
           THEN /\ response' = redirect("incomes", "Valor ou data invalidos.", "danger")
                /\ UNCHANGED Income
           ELSE /\ Income' = [Income EXCEPT ![id] = edited]
                /\ response' = redirect("incomes", "Receita atualizada com sucesso!", "success")
        /\ UNCHANGED <<User, Expense, current_user>>

\* ------------------------------------------------------- dashboard ----
\* datetime.now().year
current_year == 2024

\* year: the ?year= argument, or NoYear when the request has none.
NoYear == 0

financial_dashboard(year) ==
    LET selected_year == IF year = NoYear THEN current_year ELSE year
    IN  /\ request' = [route |-> "financial_dashboard", method |-> "GET",
                       args |-> [year |-> year]]
        /\ response' = IF ~is_authenticated THEN unauthorized("financial_dashboard")
                       ELSE render_template("financial_dashboard.html", "", "",
                                dashboard_context(Expense, Income, current_user, selected_year))
        /\ UNCHANGED <<User, Expense, Income, current_user>>

\* ---------------------------------------------------------- inputs ----
\* The strings the requests of the model carry.
Usernames == {"ana", "bob"}
Emails == {"ana@x", "bob@x"}
Passwords == {"pw1", "pw2"}
NextPages == {"", "expenses"}

Jan15 == <<"2", "0", "2", "4", "-", "0", "1", "-", "1", "5">>
Feb3  == <<"2", "0", "2", "4", "-", "2", "-", "3">>
Mar5of2023 == <<"2", "0", "2", "3", "-", "0", "3", "-", "0", "5">>
Feb30 == <<"2", "0", "2", "4", "-", "0", "2", "-", "3", "0">>
Slashed == <<"1", "5", "/", "0", "1", "/", "2", "0", "2", "4">>

\* A form is <<description, amount, category, date>>.  Two valid ones:
Lunch == <<"Lunch", <<"1">>, "Food", Jan15>>
Flat  == <<"Flat", <<"2">>, "Rent", Mar5of2023>>

\* Forms with a blank field.
BlankForms ==
    {<<"", <<"1">>, "Food", Jan15>>,
     <<"Lunch", <<>>, "Food", Jan15>>,
     <<"Lunch", <<"1">>, "", Jan15>>,
     <<"Lunch", <<"1">>, "Food", <<>>>>}

\* Forms whose amount is not a number, is zero, is negative.
NotANumber == <<"Lunch", <<"a", "b", "c">>, "Food", Jan15>>
Zero       == <<"Lunch", <<"0">>, "Food", Jan15>>
Negative   == <<"Lunch", <<"-", "1">>, "Food", Jan15>>

\* Forms whose date is not a calendar date, is not in the format.
NotADate  == <<"Lunch", <<"1">>, "Food", Feb30>>
NotFormat == <<"Lunch", <<"1">>, "Food", Slashed>>

InvalidForms == BlankForms \cup {NotANumber, Zero, Negative, NotADate, NotFormat}

\* The forms of SpecLedger: amounts 8 and 1 in two months of one year.
LedgerForms ==
    {<<"Lunch", a, "Food", d>> : a \in {<<"8">>, <<"1">>}, d \in {Jan15, Feb3}}

Ids == 1..MaxRecords

Years == {NoYear, 2023}

RecordCount == Cardinality(DOMAIN Expense) + Cardinality(DOMAIN Income)

\* --------------------------------------------------- specifications ----
\* Spec: two accounts; every handler; add with every kind of form, edit
\* with a valid form and with forms that raise ValueError.
AddForms == {Lunch} \cup InvalidForms

EditForms == {Flat, NotANumber, NotADate}

Next ==
    \/ index
    \/ dashboard
    \/ logout
    \/ expenses
    \/ incomes
    \/ \E e \in Emails : login("POST", e, "pw1", "")
    \/ \E a \in {<<"ana", "ana@x">>, <<"bob", "bob@x">>} : register("POST", a[1], a[2], "pw1", "pw1")
    \/ \E f \in AddForms :
          /\ add_expense(f[1], f[2], f[3], f[4])
          /\ RecordCount' <= MaxRecords
    \/ \E f \in AddForms :
          /\ add_income(f[1], f[2], f[3], f[4])
          /\ RecordCount' <= MaxRecords
    \/ \E id \in Ids : delete_expense(id)
    \/ \E id \in Ids : delete_income(id)
    \/ \E id \in Ids, f \in EditForms : edit_expense(id, f[1], f[2], f[3], f[4])
    \/ \E id \in Ids, f \in EditForms : edit_income(id, f[1], f[2], f[3], f[4])
    \/ \E y \in Years : financial_dashboard(y)

Spec == Init /\ [][Next]_vars

\* SpecEdit: one account; add with a valid form, edit with every kind of form.
NextEdit ==
    \/ logout
    \/ login("POST", "ana@x", "pw1", "")
    \/ register("POST", "ana", "ana@x", "pw1", "pw1")
    \/ /\ add_expense(Lunch[1], Lunch[2], Lunch[3], Lunch[4])
       /\ RecordCount' <= MaxRecords
    \/ /\ add_income(Lunch[1], Lunch[2], Lunch[3], Lunch[4])
       /\ RecordCount' <= MaxRecords
    \/ \E id \in Ids : delete_expense(id)
    \/ \E id \in Ids : delete_income(id)
    \/ \E id \in Ids, f \in InvalidForms : edit_expense(id, f[1], f[2], f[3], f[4])
    \/ \E id \in Ids, f \in InvalidForms : edit_income(id, f[1], f[2], f[3], f[4])

SpecEdit == Init /\ [][NextEdit]_vars

\* SpecAuth: every registration and login over two usernames, emails and
\* passwords; every protected handler with one input.
NextAuth ==
    \/ index
    \/ dashboard
    \/ logout
    \/ expenses
    \/ incomes
    \/ login("GET", "", "", "")
    \/ \E e \in Emails, p \in Passwords, n \in NextPages : login("POST", e, p, n)
    \/ register("GET", "", "", "", "")
    \/ \E u \in Usernames, e \in Emails, p \in Passwords, c \in Passwords : register("POST", u, e, p, c)
    \/ /\ add_expense(Lunch[1], Lunch[2], Lunch[3], Lunch[4])
       /\ RecordCount' <= MaxAuthRecords
    \/ /\ add_income(Lunch[1], Lunch[2], Lunch[3], Lunch[4])
       /\ RecordCount' <= MaxAuthRecords
    \/ delete_expense(1)
    \/ delete_income(1)
    \/ edit_expense(1, Flat[1], Flat[2], Flat[3], Flat[4])
    \/ edit_income(1, Flat[1], Flat[2], Flat[3], Flat[4])
    \/ financial_dashboard(NoYear)

SpecAuth == Init /\ [][NextAuth]_vars

\* SpecIso: two accounts that add, edit and delete valid records and read
\* their listings and dashboards.
NextIso ==
    \/ logout
    \/ expenses
    \/ incomes
    \/ \E e \in Emails : login("POST", e, "pw1", "")
    \/ \E a \in {<<"ana", "ana@x">>, <<"bob", "bob@x">>} : register("POST", a[1], a[2], "pw1", "pw1")
    \/ /\ add_expense(Lunch[1], Lunch[2], Lunch[3], Lunch[4])
       /\ RecordCount' <= MaxRecords
    \/ /\ add_income(Lunch[1], Lunch[2], Lunch[3], Lunch[4])
       /\ RecordCount' <= MaxRecords
    \/ \E id \in Ids : delete_expense(id)
    \/ \E id \in Ids : delete_income(id)
    \/ \E id \in Ids : edit_expense(id, Flat[1], Flat[2], Flat[3], Flat[4])
    \/ \E id \in Ids : edit_income(id, Flat[1], Flat[2], Flat[3], Flat[4])
    \/ \E y \in Years : financial_dashboard(y)

SpecIso == Init /\ [][NextIso]_vars

\* SpecLedger: one account that adds expenses and incomes and reads its
\* financial dashboard.
NextLedger ==
    \/ login("POST", "ana@x", "pw1", "")
    \/ register("POST", "ana", "ana@x", "pw1", "pw1")
    \/ \E f \in LedgerForms :
          /\ add_expense(f[1], f[2], f[3], f[4])
          /\ RecordCount' <= MaxLedger
    \/ /\ add_income(Lunch[1], Lunch[2], Lunch[3], Lunch[4])
       /\ RecordCount' <= MaxLedger
    \/ financial_dashboard(NoYear)

SpecLedger == Init /\ [][NextLedger]_vars

\* ----------------------------------------------------------- claims ----
\* The form a request carried.
FormOf(args) == <<args.description, args.amount, args.category, args.date>>

Tables == <<User, Expense, Income>>

ForbiddenMessages ==
    {"Voce nao tem permissao para deletar este gasto.",
     "Voce nao tem permissao para editar este gasto.",
     "Voce nao tem permissao para deletar esta receita.",
     "Voce nao tem permissao para editar esta receita."}

\* The step is a delete or an edit of row id of the table, by a logged-in user.
OnExpense(id) ==
    /\ is_authenticated
    /\ request'.route \in {"edit_expense", "delete_expense"}
    /\ request'.args.id = id

OnIncome(id) ==
    /\ is_authenticated
    /\ request'.route \in {"edit_income", "delete_income"}
    /\ request'.args.id = id

\* The response refuses the action as Forbidden: back to the listing with
\* the permission message.
Forbidden(resp, listing_endpoint) ==
    /\ resp.status = 302
    /\ resp.location = listing_endpoint
    /\ resp.flash \in ForbiddenMessages
    /\ resp.category = "danger"

\* C1: an edit or delete request on a record by an authenticated user who
\* is not its owner is refused as Forbidden and leaves the record in the
\* table with all its fields unchanged, in every reachable state.
C1_NotOwnerRefused ==
    [][\A id \in Ids :
        /\ (OnExpense(id) /\ id \in DOMAIN Expense
                /\ Expense[id].user_id # current_user)
             => /\ Forbidden(response', "expenses")
                /\ id \in DOMAIN Expense' /\ Expense'[id] = Expense[id]
        /\ (OnIncome(id) /\ id \in DOMAIN Income
                /\ Income[id].user_id # current_user)
             => /\ Forbidden(response', "incomes")
                /\ id \in DOMAIN Income' /\ Income'[id] = Income[id]]_vars

\* C1's case: the edit of another user's expense was just refused.
C1_Witness ==
    /\ request.route = "edit_expense"
    /\ request.args.id \in DOMAIN Expense
    /\ is_authenticated
    /\ Expense[request.args.id].user_id # current_user
    /\ FormOf(request.args) = Flat
    /\ response.flash = "Voce nao tem permissao para editar este gasto."

\* C9: a delete or an edit of an id that is not in the table answers 404
\* Not Found, which is not the Forbidden answer, and leaves every row of
\* every table unchanged.
C9_MissingIdNotFound ==
    [][\A id \in Ids :
        /\ (OnExpense(id) /\ id \notin DOMAIN Expense)
             => /\ response'.status = 404
                /\ ~Forbidden(response', "expenses")
                /\ Tables' = Tables
        /\ (OnIncome(id) /\ id \notin DOMAIN Income)
             => /\ response'.status = 404
                /\ ~Forbidden(response', "incomes")
                /\ Tables' = Tables
        /\ (OnExpense(id) \/ OnIncome(id))
             => ~(response'.status = 404 /\ response'.flash \in ForbiddenMessages)]_vars

\* C9's case: deleting a missing expense id, with rows in the tables, was
\* just answered 404.
C9_Witness ==
    /\ request.route = "delete_expense"
    /\ is_authenticated
    /\ request.args.id \notin DOMAIN Expense
    /\ DOMAIN Expense # {}
    /\ response.status = 404

DashYears == {2023, 2024}

\* Every output the application computes for user u from the tables E, I.
Outputs(E, I, u) ==
    <<listing(E, u), listing(I, u),
      [y \in DashYears |-> dashboard_context(E, I, u, y)]>>

\* The rows of u alone.
RowsOf(table, u) == [i \in filter_by_user(table, u) |-> table[i]]

\* C4: the listings computed for a user hold only that user's records; the
\* listings, monthly and yearly sums, category totals and grand totals
\* computed for a user are what they would be were the other users'
\* records not in the tables; the listing a response shows holds only rows
\* of the session's user; and a step that changes the Expense or Income
\* table (an add, an edit or a delete by the session's user) leaves every
\* output computed for every other user unchanged.
C4_Isolation ==
    [][/\ <<Expense, Income>>' # <<Expense, Income>>
            => \A u \in DOMAIN User :
                  /\ u # current_user
                        => Outputs(Expense', Income', u) = Outputs(Expense, Income, u)
                  /\ Outputs(Expense', Income', u)
                        = Outputs(RowsOf(Expense', u), RowsOf(Income', u), u)
                  /\ \A k \in DOMAIN listing(Expense', u).rows :
                        listing(Expense', u).rows[k].user_id = u
                  /\ \A k \in DOMAIN listing(Income', u).rows :
                        listing(Income', u).rows[k].user_id = u
       /\ response'.location \in {"expenses.html", "incomes.html"}
            => \A k \in DOMAIN response'.context.rows :
                  response'.context.rows[k].user_id = current_user']_vars

\* C4's case: a user just added an expense while another user has one.
C4_Witness ==
    /\ request.route = "add_expense"
    /\ response.flash = "Gasto adicionado com sucesso!"
    /\ \E i \in DOMAIN Expense : Expense[i].user_id # current_user

\* C2: an edit by the owner whose form has a blank field, an amount that is
\* not a number or is <= 0, or a date that is not a YYYY-MM-DD calendar
\* date is rejected with an error message, as add rejects it, and leaves
\* the stored record unchanged.
C2_InvalidEditRejected ==
    [][\A id \in Ids :
        /\ (OnExpense(id) /\ request'.route = "edit_expense"
                /\ id \in DOMAIN Expense /\ Expense[id].user_id = current_user
                /\ FormOf(request'.args) \in InvalidForms)
             => /\ response'.category = "danger"
                /\ Expense' = Expense
        /\ (OnIncome(id) /\ request'.route = "edit_income"
                /\ id \in DOMAIN Income /\ Income[id].user_id = current_user
                /\ FormOf(request'.args) \in InvalidForms)
             => /\ response'.category = "danger"
                /\ Income' = Income]_vars

\* C3: every stored Expense and Income row has amount > 0 and a user_id
\* that is the id of a User row.
C3_PositiveAmountKnownOwner ==
    /\ \A i \in DOMAIN Expense :
          Expense[i].amount > 0 /\ Expense[i].user_id \in DOMAIN User
    /\ \A i \in DOMAIN Income :
          Income[i].amount > 0 /\ Income[i].user_id \in DOMAIN User

\* The endpoints behind @login_required.
Protected ==
    {"dashboard", "logout", "expenses", "add_expense", "delete_expense",
     "edit_expense", "incomes", "add_income", "delete_income", "edit_income",
     "financial_dashboard"}

\* C6: the session's identity changes only by a login POST, from Anonymous
\* to the user whose email and password the request carries, and by a
\* logout, to Anonymous; a logout of a logged-in session always ends it;
\* and every protected request of an Anonymous session is redirected to the
\* login view and changes no table and not the session.
C6_SessionGate ==
    [][/\ current_user' # current_user
            => \/ /\ current_user = Anonymous
                  /\ request'.route = "login" /\ request'.method = "POST"
                  /\ current_user' \in DOMAIN User
                  /\ User[current_user'].email = request'.args.email
                  /\ User[current_user'].password_hash
                        = generate_password_hash(request'.args.password)
                  /\ response'.flash = "Login realizado com sucesso!"
               \/ /\ request'.route = "logout"
                  /\ current_user' = Anonymous
       /\ request'.route = "logout" => current_user' = Anonymous
       /\ (current_user = Anonymous /\ request'.route \in Protected)
            => /\ response'.status = 302
               /\ response'.location = "login"
               /\ response'.context = [next |-> request'.route]
               /\ Tables' = Tables
               /\ current_user' = Anonymous]_vars

\* C6's case: after a login, an add and a logout, an add was just sent
\* back to the login view.
C6_Witness ==
    /\ current_user = Anonymous
    /\ DOMAIN Expense # {}
    /\ request.route = "add_expense"
    /\ response.location = "login"

\* C8: a registration (an anonymous POST whose password and confirmation
\* agree) with an email some account has is answered with the
\* duplicate-email message, one with a free email and a username some
\* account has with the duplicate-username message; neither creates an
\* account; no registration changes an existing account or its password
\* digest; and in every state reached, no two accounts share a username or
\* an email.
C8_DuplicateRegistration ==
    [][/\ (request'.route = "register" /\ request'.method = "POST"
                /\ ~is_authenticated
                /\ request'.args.password = request'.args.confirm_password)
            => /\ (\E u \in DOMAIN User : User[u].email = request'.args.email)
                    => /\ response'.flash = "Este email ja esta cadastrado."
                       /\ User' = User
               /\ ((\E u \in DOMAIN User : User[u].username = request'.args.username)
                        /\ ~\E u \in DOMAIN User : User[u].email = request'.args.email)
                    => /\ response'.flash = "Este nome de usuario ja existe."
                       /\ User' = User
       /\ \A u \in DOMAIN User : u \in DOMAIN User' /\ User'[u] = User[u]
       /\ \A u, v \in DOMAIN User' :
             u # v => /\ User'[u].username # User'[v].username
                      /\ User'[u].email # User'[v].email]_vars

\* C8's case: with an account registered under one password, a
\* registration of its email under another username and password was just
\* answered with the duplicate-email message.
C8_Witness ==
    /\ request.route = "register"
    /\ response.flash = "Este email ja esta cadastrado."
    /\ \E u \in DOMAIN User :
          /\ User[u].email = request.args.email
          /\ User[u].username # request.args.username
          /\ User[u].password_hash # generate_password_hash(request.args.password)

\* The dashboard the last response shows.
ShowsDashboard == response.location = "financial_dashboard.html"

\* The database's sum over the rows of the session's user dated in year y.
DirectSum(table, y) == func_sum(table, year_rows(table, current_user, y))

\* C5: in a financial dashboard, total_expenses is the sum of the twelve
\* monthly expense sums and is the sum of amount over the user's Expense
\* rows dated in the selected year, the same holds of total_incomes over the
\* Income rows, and total_balance is total_incomes - total_expenses.
C5_FoldConsistency ==
    ShowsDashboard =>
        LET c == response.context
        IN  /\ c.total_expenses = sum([m \in 1..12 |-> c.monthly_data[m].expenses])
            /\ c.total_incomes = sum([m \in 1..12 |-> c.monthly_data[m].incomes])
            /\ c.total_expenses = DirectSum(Expense, c.selected_year)
            /\ c.total_incomes = DirectSum(Income, c.selected_year)
            /\ c.total_balance = FSub(c.total_incomes, c.total_expenses)

\* C10: in a financial dashboard, yearly_data has five entries, for the
\* years selected_year-4 .. selected_year in ascending order, and the last
\* one has the expenses, incomes and balance that the same response gives
\* as total_expenses, total_incomes and total_balance.
C10_YearlyMatchesTotals ==
    ShowsDashboard =>
        LET c == response.context
        IN  /\ Len(c.yearly_data) = 5
            /\ \A k \in 1..5 : c.yearly_data[k].year = c.selected_year - 5 + k
            /\ c.yearly_data[5].expenses = c.total_expenses
            /\ c.yearly_data[5].incomes = c.total_incomes
            /\ c.yearly_data[5].balance = c.total_balance

=============================================================================
